---- MODULE Spec2Model ----
(***************************************************************************)
(* avatar-blocker.py: stream listeners and the hashtag backfill hand every *)
(* observed account to on_stream, which judges the avatar through three    *)
(* memoised functions (cachetools.cached without a lock) and blocks or     *)
(* reports the account.                                                    *)
(*                                                                         *)
(* Every thread that runs on_stream is a process of the model.  A step of  *)
(* a process is one access to shared state (a cache lookup, a cache store) *)
(* together with the thread-local code around it; a blocking collaborator  *)
(* call (HTTP fetch, classifier, relationship query, block) is in flight   *)
(* between the step that issues it and the step that receives its result.  *)
(***************************************************************************)
EXTENDS Integers, Sequences, FiniteSets, TLC

\* ------------------------------------------------------------- bounds
\* Statuses the hashtag timeline returns at most.
MaxBackfill == 1
\* Longest classifier result explored.
MaxLen == 2
\* Capacity of the verdict cache, LRUCache(maxsize=512), scaled to the
\* accounts explored.
lru_maxsize == 2
\* Capacity of the two TTL caches, TTLCache(maxsize=1024), scaled alike.
ttl_maxsize == 2
\* The modulus of CPython's hash of an int, 2^61 - 1, scaled alike.
hash_modulus == 7

\* ------------------------------------------------------ configuration
\* --image-cache-ttl and --relationship-cache-ttl, in minutes.
image_cache_ttl == 1
relationship_cache_ttl == 2
\* --minimum-score, in hundredths (0.75).
minimum_score == 75
\* --bad-categories "bad", split at the commas.
bad_categories == {"bad"}

\* ------------------------------------------------------------ domains
\* Threads that call on_stream: the main thread (hashtag backfill) and the
\* listener threads of the streams.
Threads == {"main", "user"}
\* The accounts observed: account 1 with any avatar, and account 2, which
\* keeps the default avatar and is there to press on the verdict cache.
Ids == {1, 2}

\* More accounts than the verdict cache holds, one of them with an id that
\* is account 1's plus the modulus of hash.
CrowdIds == Ids \cup {3, 1 + hash_modulus}

\* account["avatar_static"]: the key is absent, the URL ends with
\* /missing.png, or it is any other URL.
AvatarKinds == {"absent", "missing.png", "url"}
NoAccountData == [has_account |-> FALSE, has_id |-> FALSE, id |-> 0, avatar_static |-> "absent"]
NoIdData == [has_account |-> TRUE, has_id |-> FALSE, id |-> 0, avatar_static |-> "absent"]
AccountData(i, a) == [has_account |-> TRUE, has_id |-> TRUE, id |-> i, avatar_static |-> a]
StreamData ==
    {NoAccountData, NoIdData}
        \cup {AccountData(1, a) : a \in AvatarKinds}
        \cup {AccountData(2, "missing.png")}

\* Events of the crowd: accounts that are judged without a download, for
\* want of an avatar or for having the default one.
CrowdData ==
    {AccountData(i, a) : i \in {1, 2, 3}, a \in {"absent", "missing.png"}}
        \cup {AccountData(1 + hash_modulus, "missing.png")}

\* What requests.get and Image.open do with an avatar URL.
Responses == {"image", "undecodable", "http_error", "exception"}

\* One entry of a classifier result; an entry may lack either key.
Entry(hs, hl, s, l) == [has_score |-> hs, has_label |-> hl, score |-> s, label |-> l]
Entries ==
    { Entry(TRUE, TRUE, 74, "bad"), Entry(TRUE, TRUE, 75, "bad"),
      Entry(TRUE, TRUE, 90, "cat"), Entry(FALSE, TRUE, 0, "bad"),
      Entry(TRUE, FALSE, 90, "") }
SeqsUpTo(S, n) == UNION { [1..k -> S] : k \in 0..n }
Classified(es) == [raised |-> FALSE, entries |-> es]
ClassifierError == [raised |-> TRUE, entries |-> << >>]
ClassifierResults == {Classified(es) : es \in SeqsUpTo(Entries, MaxLen)} \cup {ClassifierError}

\* What mastodon.account_relationships returns: a list of records, or the
\* call raises and get_relationship returns None.
Relationship(f, fb) == [following |-> f, followed_by |-> fb]
Opposite(r) == Relationship(~r.following, ~r.followed_by)
NoneRelationships == [is_none |-> TRUE, list |-> << >>]
ListOf(rs) == [is_none |-> FALSE, list |-> rs]
QueryResults ==
    {NoneRelationships, ListOf(<< >>)}
        \cup {ListOf(<<r>>) : r \in {Relationship(TRUE, TRUE), Relationship(FALSE, FALSE)}}
        \cup {ListOf(<<r, Opposite(r)>>) : r \in {Relationship(TRUE, FALSE), Relationship(FALSE, TRUE)}}

\* ------------------------------------------------------------- state
VARIABLES
    config,                   \* include_following, exclude_followers, auto_block
    running,                  \* the process has not been terminated
    main_pc,                  \* the main thread: "login", "logged_in",
                              \* "login_failed", "timeline", "replay", "sleep",
                              \* "exited"
    backlog,                  \* statuses of the hashtag timeline still to replay
    pc,                       \* where each thread is in on_stream
    account,                  \* data["account"] of the event being handled
    verdict,                  \* what is_account_bad returned: "True", "False", "None"
    pfp,                      \* what download_pfp returned: "Image", "None"
    classification,           \* the classifier call: "not_called", "returned", "raised"
    action,                   \* what on_stream did: "none", "flag", "block", "discarded"
    is_account_bad_cache,     \* LRUCache: entries [key, value], least recent first
    download_pfp_cache,       \* TTLCache: entries [key, value, expires]
    get_relationship_cache,   \* TTLCache: entries [key, value, expires]
    last_judged               \* per key, how the latest is_account_bad call ended:
                              \* its verdict, "raised", or "never" (none since the
                              \* key was last evicted)

vars ==
    << config, running, main_pc, backlog, pc, account, verdict, pfp,
       classification, action, is_account_bad_cache,
       download_pfp_cache, get_relationship_cache, last_judged >>

locals == << account, verdict, pfp, classification, action >>
caches == << is_account_bad_cache, download_pfp_cache, get_relationship_cache >>
process == << running, main_pc, backlog >>

\* ------------------------------------------------------------ cache keys
\* CPython's hash of an int is the int modulo 2^61 - 1, with the sign of
\* the int, but for -1, whose hash is -2.
hash(x) ==
    IF x = -1 THEN -2
    ELSE IF x >= 0 THEN x % hash_modulus
    ELSE -((-x) % hash_modulus)

\* on_stream checks "id" in account before any memoised call, so the
\* hashkey fallbacks are never taken.
cache_key_acct(acct) == hash(acct.id)
Keys == {hash(i) : i \in CrowdIds}

\* ------------------------------------------------------------ sequences
Without(cache, k) == SelectSeq(cache, LAMBDA e : e.key # k)
Has(cache, k) == \E i \in DOMAIN cache : cache[i].key = k
Entry_(cache, k) == cache[CHOOSE i \in DOMAIN cache : cache[i].key = k]
MoveToEnd(cache, k) == IF Has(cache, k) THEN Append(Without(cache, k), Entry_(cache, k)) ELSE cache
RECURSIVE PopUntilFits(_, _)
PopUntilFits(cache, maxsize) ==
    IF Len(cache) + 1 > maxsize /\ Len(cache) > 0
    THEN PopUntilFits(Tail(cache), maxsize)
    ELSE cache

\* ------------------------------------------------------------ LRUCache
\* Mutant: the verdict cache never answers, as if every entry had expired.
LRUHit_Never(cache, k) == FALSE
\* LRUCache.__getitem__: a hit moves the key to the most recent end.
LRUHit(cache, k) == Has(cache, k)
LRUValue(cache, k) == Entry_(cache, k).value
\* Mutant: a hit leaves the order alone, which makes the cache first in,
\* first out.
LRUGet_NoRefresh(cache, k) == cache
LRUGet(cache, k) == MoveToEnd(cache, k)

\* LRUCache.__setitem__: a new key first pops least recently used entries
\* until it fits; the key stored becomes the most recent one.
LRUSet(cache, k, v) ==
    IF Has(cache, k)
    THEN Append(Without(cache, k), [key |-> k, value |-> v])
    ELSE Append(PopUntilFits(cache, lru_maxsize), [key |-> k, value |-> v])

\* ------------------------------------------------------------ TTLCache
\* The timer.  Time is kept relative to the present: the timer reads 0 and
\* the passing of d seconds moves every entry's expires d seconds closer.
timer == 0

\* Mutant: an entry never expires.
Expired_Never(e, time) == FALSE

\* TTLCache.__getitem__: expired = not (timer() < link.expires).
Expired(e, time) == ~(time < e.expires)
TTLHit(cache, k, time) == Has(cache, k) /\ ~Expired(Entry_(cache, k), time)
TTLValue(cache, k) == Entry_(cache, k).value
\* __getlink moves the key to the most recent end, expired or not.
TTLGet(cache, k) == MoveToEnd(cache, k)

\* TTLCache.expire(time): drops every expired entry.
Expire(cache, time) == SelectSeq(cache, LAMBDA e : ~Expired(e, time))

\* TTLCache.__setitem__: expire, make room, store with expires = time + ttl.
TTLSet(cache, k, v, time, ttl) ==
    LET live == Expire(cache, time)
        new == [key |-> k, value |-> v, expires |-> time + ttl]
    IN  IF Has(live, k)
        THEN Append(Without(live, k), new)
        ELSE Append(PopUntilFits(live, ttl_maxsize), new)

\* TTLCache(maxsize=1024, ttl=image_cache_ttl * 60) and its sibling.
download_pfp_ttl == image_cache_ttl * 60
get_relationship_ttl == relationship_cache_ttl * 60

\* --------------------------------------------------------- pure code
\* if "avatar_static" not in account / account["avatar_static"].endswith("/missing.png")
HasAvatar(acct) == acct.avatar_static # "absent"
\* Mutant: the default avatar is not recognised.
IsPlaceholder_Never(acct) == FALSE
IsPlaceholder(acct) == acct.avatar_static = "missing.png"

\* Mutant: a score equal to the minimum is skipped too.
BelowMinimum_OrEqual(score) == score <= minimum_score

\* if score < minimum_score: continue
BelowMinimum(score) == score < minimum_score

\* The loop of is_account_bad over the classifier's result.
RECURSIVE ClassificationLoop(_)
ClassificationLoop(es) ==
    IF es = << >> THEN "False"
    ELSE LET cls == Head(es)
         IN  IF ~cls.has_score \/ ~cls.has_label THEN ClassificationLoop(Tail(es))
             ELSE IF BelowMinimum(cls.score) THEN ClassificationLoop(Tail(es))
             ELSE IF cls.label \in bad_categories THEN "True"
             ELSE ClassificationLoop(Tail(es))

\* Mutant: a classifier failure counts as bad.
JudgeClassification_FailClosed(c) == IF c.raised THEN "True" ELSE ClassificationLoop(c.entries)

\* try: ... except: logger.exception(...); return False
JudgeClassification(c) == IF c.raised THEN "False" ELSE ClassificationLoop(c.entries)

\* Mutant: only a verdict of False stops the handler.
Truthy_NotFalse(v) == v # "False"

\* if is_account_bad(account): Python's truth value of True, False, None.
Truthy(v) == v = "True"

\* Mutant: the last record of the list is the one used.
FirstRecord_Last(rel) ==
    IF rel.is_none \/ Len(rel.list) = 0 THEN << >> ELSE << rel.list[Len(rel.list)] >>

\* relationships = get_relationship(account) or {}, then the first record
\* of a list: the result is a dict, here a sequence of at most one record.
FirstRecord(rel) ==
    IF rel.is_none \/ Len(rel.list) = 0 THEN << >> ELSE << rel.list[1] >>
\* Mutant: an account with no record counts as followed.
GetFollowing_DefaultTrue(d) == IF d = << >> THEN TRUE ELSE d[1].following
\* relationships.get("following", False), .get("followed_by", False)
GetFollowing(d) == IF d = << >> THEN FALSE ELSE d[1].following
GetFollowedBy(d) == IF d = << >> THEN FALSE ELSE d[1].followed_by

\* Mutant: an account the user follows is exempt whatever include_following says.
OnStreamPolicy_AlwaysExemptFollowing(rel, cfg) ==
    LET d == FirstRecord(rel)
    IN  IF GetFollowing(d) THEN "none"
        ELSE IF cfg.exclude_followers /\ GetFollowedBy(d) THEN "none"
        ELSE IF cfg.auto_block THEN "block"
        ELSE "flag"

\* The tail of on_stream once the account is judged bad.
OnStreamPolicy(rel, cfg) ==
    LET d == FirstRecord(rel)
    IN  IF ~cfg.include_following /\ GetFollowing(d) THEN "none"
        ELSE IF cfg.exclude_followers /\ GetFollowedBy(d) THEN "none"
        ELSE IF cfg.auto_block THEN "block"
        ELSE "flag"

\* --------------------------------------------------------------- Init
Configs == [include_following : BOOLEAN, exclude_followers : BOOLEAN, auto_block : BOOLEAN]

Init ==
    /\ config \in Configs
    /\ running = TRUE
    /\ main_pc = "login"
    /\ backlog = 0
    /\ pc = [t \in Threads |-> "idle"]
    /\ account = [t \in Threads |-> NoAccountData]
    /\ verdict = [t \in Threads |-> "unset"]
    /\ pfp = [t \in Threads |-> "unset"]
    /\ classification = [t \in Threads |-> "not_called"]
    /\ action = [t \in Threads |-> "pending"]
    /\ is_account_bad_cache = << >>
    /\ download_pfp_cache = << >>
    /\ get_relationship_cache = << >>
    /\ last_judged = [k \in Keys |-> "never"]

\* ------------------------------------------------------------ helpers
\* The wrapper of is_account_bad stores v under k and returns it.
StoreVerdict(t, v) ==
    LET k == cache_key_acct(account[t])
        stored == LRUSet(is_account_bad_cache, k, v)
    IN  /\ verdict' = [verdict EXCEPT ![t] = v]
        /\ is_account_bad_cache' = stored
        /\ last_judged' =
               [j \in Keys |->
                   IF j = k THEN v
                   ELSE IF Has(is_account_bad_cache, j) /\ ~Has(stored, j)
                        THEN "never" ELSE last_judged[j]]
        /\ pc' = [pc EXCEPT ![t] = "judged"]

\* The tail of on_stream with the relationships in hand: the exemptions,
\* the report, and the call of mastodon.account_block when auto_block is set.
Policy(t, rel) ==
    /\ action' = [action EXCEPT ![t] = OnStreamPolicy(rel, config)]
    /\ pc' = [pc EXCEPT ![t] = IF action'[t] = "block" THEN "account_block" ELSE "done"]

\* An exception leaves on_stream: a listener thread loses the event, the
\* main thread has no handler around the backfill and the process ends.
Raise(t) ==
    /\ pc' = [pc EXCEPT ![t] = "raised"]
    /\ running' = (t # "main")
    /\ last_judged' = [last_judged EXCEPT ![cache_key_acct(account[t])] = "raised"]

\* The process is gone, and its memory with it.
Exit ==
    /\ running' = FALSE
    /\ main_pc' = "exited"
    /\ backlog' = 0
    /\ pc' = [t \in Threads |-> "idle"]
    /\ account' = [t \in Threads |-> NoAccountData]
    /\ verdict' = [t \in Threads |-> "unset"]
    /\ pfp' = [t \in Threads |-> "unset"]
    /\ classification' = [t \in Threads |-> "not_called"]
    /\ action' = [t \in Threads |-> "pending"]
    /\ is_account_bad_cache' = << >>
    /\ download_pfp_cache' = << >>
    /\ get_relationship_cache' = << >>
    /\ last_judged' = [k \in Keys |-> "never"]
    /\ UNCHANGED config

\* The stream listeners are registered once the greeting at line 239 is
\* past, the user stream before the hashtag loop.
Listening(mpc) == mpc \in {"timeline", "replay", "sleep"}

\* Mutant: the greeting goes through after a failed login.
MeIsBound_Always(mpc) == TRUE

\* logger.info("logged into Mastodon as @%s", me.acct): me is bound only
\* when both Mastodon(...) and mastodon.me() returned.
MeIsBound(mpc) == mpc = "logged_in"

\* ------------------------------------------------------------ actions
\* try: mastodon = Mastodon(...); me = mastodon.me()
\* except: logger.exception("failed to log into mastodon")
Login(ok) ==
    /\ running /\ main_pc = "login"
    /\ main_pc' = IF ok THEN "logged_in" ELSE "login_failed"
    /\ UNCHANGED << config, running, backlog, pc, locals, caches, last_judged >>

\* The greeting: a NameError when me is unbound, which nothing catches;
\* otherwise the streams are registered and the hashtag loop begins.
Greeting ==
    /\ running /\ main_pc \in {"logged_in", "login_failed"}
    /\ IF MeIsBound(main_pc)
       THEN main_pc' = "timeline" /\ running' = running
       ELSE main_pc' = main_pc /\ running' = FALSE
    /\ UNCHANGED << config, backlog, pc, locals, caches, last_judged >>

\* check_hashtag_timeline: mastodon.timeline_hashtag returns n statuses, or
\* raises, which is logged and ends the backfill.
CheckHashtagTimeline(ok, n) ==
    /\ running /\ main_pc = "timeline"
    /\ main_pc' = "replay"
    /\ backlog' = IF ok THEN n ELSE 0
    /\ UNCHANGED << config, running, pc, locals, caches, last_judged >>

\* The loop over the timeline is over: signal handlers, then sleep forever.
Sleep ==
    /\ running /\ main_pc = "replay" /\ backlog = 0 /\ pc["main"] = "idle"
    /\ main_pc' = "sleep"
    /\ UNCHANGED << config, running, backlog, pc, locals, caches, last_judged >>

\* on_stream(data) up to the lookup in is_account_bad's cache.
OnStream(t, data) ==
    /\ running /\ pc[t] = "idle"
    /\ Listening(main_pc)
    /\ t = "main" => main_pc = "replay" /\ backlog > 0
    /\ backlog' = IF t = "main" THEN backlog - 1 ELSE backlog
    /\ IF ~data.has_account \/ ~data.has_id
       THEN /\ pc' = [pc EXCEPT ![t] = "done"]
            /\ action' = [action EXCEPT ![t] = "discarded"]
            /\ UNCHANGED << account, verdict, is_account_bad_cache, last_judged >>
       ELSE LET k == cache_key_acct(data)
            IN  /\ account' = [account EXCEPT ![t] = data]
                /\ action' = action
                /\ IF LRUHit(is_account_bad_cache, k)
                   THEN /\ verdict' = [verdict EXCEPT ![t] = LRUValue(is_account_bad_cache, k)]
                        /\ is_account_bad_cache' = LRUGet(is_account_bad_cache, k)
                        /\ last_judged' = [last_judged EXCEPT ![k] = LRUValue(is_account_bad_cache, k)]
                        /\ pc' = [pc EXCEPT ![t] = "judged"]
                   ELSE /\ pc' = [pc EXCEPT ![t] = "is_account_bad"]
                        /\ UNCHANGED << verdict, is_account_bad_cache, last_judged >>
    /\ UNCHANGED << config, running, main_pc, pfp, classification,
                    download_pfp_cache, get_relationship_cache >>

\* The body of is_account_bad up to the lookup in download_pfp's cache.
IsAccountBad(t) ==
    /\ running /\ pc[t] = "is_account_bad"
    /\ LET k == cache_key_acct(account[t])
       IN  IF ~HasAvatar(account[t])
           THEN /\ StoreVerdict(t, "False")
                /\ UNCHANGED << pfp, download_pfp_cache >>
           ELSE IF IsPlaceholder(account[t])
           THEN /\ StoreVerdict(t, "None")
                /\ UNCHANGED << pfp, download_pfp_cache >>
           ELSE /\ download_pfp_cache' = TTLGet(download_pfp_cache, k)
                /\ IF TTLHit(download_pfp_cache, k, timer)
                   THEN /\ pfp' = [pfp EXCEPT ![t] = TTLValue(download_pfp_cache, k)]
                        /\ pc' = [pc EXCEPT ![t] = "have_pfp"]
                   ELSE /\ pc' = [pc EXCEPT ![t] = "download_pfp"]
                        /\ pfp' = pfp
                /\ UNCHANGED << verdict, is_account_bad_cache, last_judged >>
    /\ UNCHANGED << config, process, account, classification, action,
                    get_relationship_cache >>

\* What download_pfp returns for a response; "exception" has no value.
DownloadPfpResult(response) == IF response = "image" THEN "Image" ELSE "None"

\* requests.get returns or raises; the wrapper of download_pfp stores what
\* the body returns.
DownloadPfp(t, response) ==
    /\ running /\ pc[t] = "download_pfp"
    /\ IF response = "exception"
       THEN /\ Raise(t)
            /\ UNCHANGED << pfp, download_pfp_cache >>
       ELSE /\ download_pfp_cache' =
                   TTLSet(download_pfp_cache, cache_key_acct(account[t]),
                          DownloadPfpResult(response), timer, download_pfp_ttl)
            /\ pfp' = [pfp EXCEPT ![t] = DownloadPfpResult(response)]
            /\ pc' = [pc EXCEPT ![t] = "have_pfp"]
            /\ UNCHANGED << running, last_judged >>
    /\ UNCHANGED << config, main_pc, backlog, account, verdict, classification,
                    action, is_account_bad_cache, get_relationship_cache >>

\* if not pfp: return False
NoPfp(t) ==
    /\ running /\ pc[t] = "have_pfp" /\ pfp[t] = "None"
    /\ StoreVerdict(t, "False")
    /\ UNCHANGED << config, process, account, pfp, classification,
                    action, download_pfp_cache, get_relationship_cache >>

\* classifier(pfp) returns or raises; the loop; the wrapper stores the verdict.
Classifier(t, result) ==
    /\ running /\ pc[t] = "have_pfp" /\ pfp[t] = "Image"
    /\ StoreVerdict(t, JudgeClassification(result))
    /\ classification' = [classification EXCEPT ![t] = IF result.raised THEN "raised" ELSE "returned"]
    /\ UNCHANGED << config, process, account, pfp,
                    action, download_pfp_cache, get_relationship_cache >>

\* if is_account_bad(account): ... up to the lookup in get_relationship's
\* cache and, on a hit, the rest of on_stream.
Judged(t) ==
    /\ running /\ pc[t] = "judged"
    /\ IF Truthy(verdict[t])
       THEN LET k == cache_key_acct(account[t])
            IN  /\ get_relationship_cache' = TTLGet(get_relationship_cache, k)
                /\ IF TTLHit(get_relationship_cache, k, timer)
                   THEN Policy(t, TTLValue(get_relationship_cache, k))
                   ELSE /\ pc' = [pc EXCEPT ![t] = "get_relationship"]
                        /\ action' = action
       ELSE /\ pc' = [pc EXCEPT ![t] = "done"]
            /\ action' = [action EXCEPT ![t] = "none"]
            /\ UNCHANGED get_relationship_cache
    /\ UNCHANGED << config, process, account, verdict, pfp, classification,
                    is_account_bad_cache, download_pfp_cache, last_judged >>

\* mastodon.account_relationships returns a list or raises (result None);
\* the wrapper of get_relationship stores what the body returns; the rest
\* of on_stream.
GetRelationship(t, result) ==
    /\ running /\ pc[t] = "get_relationship"
    /\ get_relationship_cache' =
           TTLSet(get_relationship_cache, cache_key_acct(account[t]), result, timer,
                  get_relationship_ttl)
    /\ Policy(t, result)
    /\ UNCHANGED << config, process, account, verdict, pfp, classification,
                    is_account_bad_cache, download_pfp_cache, last_judged >>

\* Mutant: a block that succeeded is remembered, as a verdict that keeps
\* later events of the account from being blocked again.
AccountBlock_Dedup(t, ok) ==
    /\ running /\ pc[t] = "account_block"
    /\ pc' = [pc EXCEPT ![t] = "done"]
    /\ is_account_bad_cache' =
           IF ok THEN LRUSet(is_account_bad_cache, cache_key_acct(account[t]), "False")
           ELSE is_account_bad_cache
    /\ UNCHANGED << config, process, locals, download_pfp_cache,
                    get_relationship_cache, last_judged >>

\* mastodon.account_block returns or raises; a failure is logged.
AccountBlock(t, ok) ==
    /\ running /\ pc[t] = "account_block"
    /\ pc' = [pc EXCEPT ![t] = "done"]
    /\ UNCHANGED << config, process, locals, caches, last_judged >>

\* on_stream returns (or, on a listener thread, the exception is dropped):
\* the thread takes its next event.
Return(t) ==
    /\ running /\ pc[t] \in {"done", "raised"}
    /\ pc' = [pc EXCEPT ![t] = "idle"]
    /\ account' = [account EXCEPT ![t] = NoAccountData]
    /\ verdict' = [verdict EXCEPT ![t] = "unset"]
    /\ pfp' = [pfp EXCEPT ![t] = "unset"]
    /\ classification' = [classification EXCEPT ![t] = "not_called"]
    /\ action' = [action EXCEPT ![t] = "pending"]
    /\ UNCHANGED << config, process, caches, last_judged >>

\* Where an exception raised in the main thread meets a bare except: around
\* the login, mastodon.timeline_hashtag, classifier(pfp),
\* mastodon.account_relationships and mastodon.account_block.
InBareExcept(mpc, p, image) ==
    \/ mpc \in {"login", "timeline"}
    \/ mpc = "replay" /\ p = "have_pfp" /\ image = "Image"
    \/ mpc = "replay" /\ p \in {"get_relationship", "account_block"}

\* SIGINT.  signal(SIGINT, signal_handler) runs only after the hashtag
\* loop; from then on the handler calls exit(0).  Until then Python raises
\* KeyboardInterrupt in the main thread, wherever it is: inside a bare
\* except the call in flight just counts as failed, anywhere else nothing
\* catches it and the process ends.  Before timeline_hashtag the main
\* thread registers the hashtag stream outside any try (in_call = FALSE).
Interrupt(in_call) ==
    /\ running
    /\ IF main_pc = "sleep"
          \/ ~InBareExcept(main_pc, pc["main"], pfp["main"])
          \/ (main_pc = "timeline" /\ ~in_call)
       THEN Exit
       ELSE CASE main_pc = "login" -> Login(FALSE)
              [] main_pc = "timeline" -> CheckHashtagTimeline(FALSE, 0)
              [] pc["main"] = "have_pfp" -> Classifier("main", ClassifierError)
              [] pc["main"] = "get_relationship" -> GetRelationship("main", NoneRelationships)
              [] pc["main"] = "account_block" -> AccountBlock("main", FALSE)

\* Time passes, a minute and a half at a time: the avatar of a minute ago
\* is then older than image_cache_ttl, a relationship is older than
\* relationship_cache_ttl after two such delays.  An entry that has expired
\* is never read again: __getitem__ misses it and the next __setitem__ drops
\* it before anything else, so the tick that expires an entry drops it at once.
Delays == {90}
Age(cache, d) == Expire([i \in DOMAIN cache |-> [cache[i] EXCEPT !.expires = @ - d]], timer)
Tick(d) ==
    /\ download_pfp_cache' = Age(download_pfp_cache, d)
    /\ get_relationship_cache' = Age(get_relationship_cache, d)
    /\ UNCHANGED << config, process, pc, locals, is_account_bad_cache, last_judged >>

Next ==
    \/ \E ok \in BOOLEAN : Login(ok)
    \/ Greeting
    \/ \E ok \in BOOLEAN, n \in 0..MaxBackfill : CheckHashtagTimeline(ok, n)
    \/ Sleep
    \/ \E t \in Threads, data \in StreamData : OnStream(t, data)
    \/ \E t \in Threads : IsAccountBad(t)
    \/ \E t \in Threads, response \in Responses : DownloadPfp(t, response)
    \/ \E t \in Threads : NoPfp(t)
    \/ \E t \in Threads, result \in ClassifierResults : Classifier(t, result)
    \/ \E t \in Threads : Judged(t)
    \/ \E t \in Threads, result \in QueryResults : GetRelationship(t, result)
    \/ \E t \in Threads, ok \in BOOLEAN : AccountBlock(t, ok)
    \/ \E t \in Threads : Return(t)
    \/ \E d \in Delays : Tick(d)
    \/ \E in_call \in BOOLEAN : Interrupt(in_call)

Spec == Init /\ [][Next]_vars

\* The call of is_account_bad at "classification = classifier(pfp)": the
\* user stream delivered account 1, whose avatar was downloaded and cached,
\* under every configuration; the run of on_stream from there to its end.
ClassifierInit ==
    /\ config \in Configs
    /\ running = TRUE
    /\ main_pc = "timeline"
    /\ backlog = 0
    /\ pc = [t \in Threads |-> IF t = "user" THEN "have_pfp" ELSE "idle"]
    /\ account = [t \in Threads |-> IF t = "user" THEN AccountData(1, "url") ELSE NoAccountData]
    /\ verdict = [t \in Threads |-> "unset"]
    /\ pfp = [t \in Threads |-> IF t = "user" THEN "Image" ELSE "unset"]
    /\ classification = [t \in Threads |-> "not_called"]
    /\ action = [t \in Threads |-> "pending"]
    /\ is_account_bad_cache = << >>
    /\ download_pfp_cache =
           TTLSet(<< >>, cache_key_acct(AccountData(1, "url")), "Image", timer, download_pfp_ttl)
    /\ get_relationship_cache = << >>
    /\ last_judged = [k \in Keys |-> "never"]

ClassifierNext ==
    \E t \in Threads :
        \/ \E result \in ClassifierResults : Classifier(t, result)
        \/ Judged(t)
        \/ \E result \in QueryResults : GetRelationship(t, result)
        \/ \E ok \in BOOLEAN : AccountBlock(t, ok)
        \/ Return(t)

ClassifierSpec == ClassifierInit /\ [][ClassifierNext]_vars

\* More accounts than the verdict cache holds: the user stream and the
\* backfill deliver accounts of the crowd under the default configuration.
CrowdInit ==
    /\ config = [include_following |-> FALSE, exclude_followers |-> FALSE, auto_block |-> FALSE]
    /\ running = TRUE
    /\ main_pc = "timeline"
    /\ backlog = 0
    /\ pc = [t \in Threads |-> "idle"]
    /\ account = [t \in Threads |-> NoAccountData]
    /\ verdict = [t \in Threads |-> "unset"]
    /\ pfp = [t \in Threads |-> "unset"]
    /\ classification = [t \in Threads |-> "not_called"]
    /\ action = [t \in Threads |-> "pending"]
    /\ is_account_bad_cache = << >>
    /\ download_pfp_cache = << >>
    /\ get_relationship_cache = << >>
    /\ last_judged = [k \in Keys |-> "never"]

CrowdNext ==
    \/ \E ok \in BOOLEAN, n \in 0..MaxBackfill : CheckHashtagTimeline(ok, n)
    \/ Sleep
    \/ \E t \in Threads, data \in CrowdData : OnStream(t, data)
    \/ \E t \in Threads : IsAccountBad(t)
    \/ \E t \in Threads : Judged(t)
    \/ \E t \in Threads : Return(t)

CrowdSpec == CrowdInit /\ [][CrowdNext]_vars

\* ===================================================================
\* Properties
\* ===================================================================
KeyOf(t) == cache_key_acct(account[t])

\* The spec's decide(verdict, relationship, config).
decide(v, following, followedBy, cfg) ==
    CASE v # "bad" -> "none"
      [] v = "bad" /\ ~cfg.include_following /\ following -> "none"
      [] v = "bad" /\ ~(~cfg.include_following /\ following)
                   /\ cfg.exclude_followers /\ followedBy -> "none"
      [] OTHER -> IF cfg.auto_block THEN "block" ELSE "flag"

\* The spec's verdict for is_account_bad's return value.
VerdictOf(v) == CASE v = "True" -> "bad" [] v = "False" -> "notBad" [] OTHER -> "indeterminate"

\* The spec's relationship facts of a query result: the first record of a
\* list, and unknown (neither following nor followed) for None or no record.
FollowingOf(rel) == ~rel.is_none /\ Len(rel.list) > 0 /\ rel.list[1].following
FollowedByOf(rel) == ~rel.is_none /\ Len(rel.list) > 0 /\ rel.list[1].followed_by

\* C1: the action on_stream takes equals decide(verdict, relationship,
\* config): none for a verdict that is not bad, else none for a followed
\* account unless include_following, else none for a follower when
\* exclude_followers, else block (the block call is issued) when auto_block
\* and flag (no block call) otherwise.  The relationship is the one the
\* resolver handed to this event: the cached one on a hit, the one just
\* queried and stored on a miss.
C1_ActionEqualsDecide ==
    [][\A t \in Threads :
          /\ (pc[t] = "judged" /\ pc'[t] \in {"done", "account_block"}) =>
                LET rel == IF Truthy(verdict[t])
                           THEN TTLValue(get_relationship_cache, KeyOf(t))
                           ELSE NoneRelationships
                    expected == decide(VerdictOf(verdict[t]), FollowingOf(rel),
                                       FollowedByOf(rel), config)
                IN  /\ action'[t] = expected
                    /\ (pc'[t] = "account_block") = (expected = "block")
          /\ (pc[t] = "get_relationship" /\ pc'[t] # "get_relationship" /\ running') =>
                LET rel == TTLValue(get_relationship_cache', KeyOf(t))
                    expected == decide(VerdictOf(verdict[t]), FollowingOf(rel),
                                       FollowedByOf(rel), config)
                IN  /\ action'[t] = expected
                    /\ (pc'[t] = "account_block") = (expected = "block")
      ]_vars

\* C1, witness: with both options set, a bad account that follows the
\* operator and is followed got its pass from the follower exemption.
C1_Witness ==
    \E t \in Threads :
        /\ pc[t] = "done" /\ verdict[t] = "True" /\ action[t] = "none"
        /\ config.include_following /\ config.exclude_followers /\ config.auto_block

\* C2: two handlers never have the classifier in flight for one identity
\* at the same time (concurrent misses coalesce into one invocation).
ClassifierInFlight(t) == pc[t] = "have_pfp" /\ pfp[t] = "Image"
C2_OneClassifierInvocation ==
    \A t1, t2 \in Threads :
        (t1 # t2 /\ ClassifierInFlight(t1) /\ ClassifierInFlight(t2))
            => KeyOf(t1) # KeyOf(t2)

\* C3: an event whose judgment invoked the classifier and the classifier
\* raised has the verdict notBad, the step that catches the failure stores
\* that notBad in the verdict cache, and the event ends without a block
\* call, whatever auto_block is.
C3_ClassifierFailureNeverBlocks ==
    /\ [](\A t \in Threads :
            classification[t] = "raised" =>
                /\ VerdictOf(verdict[t]) = "notBad"
                /\ pc[t] \in {"judged", "done"}
                /\ pc[t] = "done" => action[t] = "none")
    /\ [][\A t \in Threads :
            (classification[t] # "raised" /\ classification'[t] = "raised") =>
                /\ LRUHit(is_account_bad_cache', KeyOf(t))
                /\ LRUValue(is_account_bad_cache', KeyOf(t)) = "False"
       ]_vars

\* C3, witness: the classifier raised for an event that is over, under
\* auto_block.
C3_Witness ==
    \E t \in Threads :
        classification[t] = "raised" /\ pc[t] = "done" /\ config.auto_block

\* C4: get_relationship does not cache a failed query: a resolve for an
\* identity whose last query failed (the cache would hold the unknown of
\* that failure) issues a fresh query, also within the relationship TTL.
C4_FailedQueryNotCached ==
    [][\A t \in Threads :
          (pc[t] = "judged" /\ Truthy(verdict[t]) /\ pc'[t] # "judged"
                /\ Has(get_relationship_cache, KeyOf(t))
                /\ Entry_(get_relationship_cache, KeyOf(t)).value.is_none) =>
              pc'[t] = "get_relationship"
      ]_vars

\* C5: every avatar fetch that does not yield an image (a non-success
\* status, an undecodable body, a timeout or connection error) returns the
\* unavailable sentinel to is_account_bad and leaves it cached under the
\* image TTL.
C5_FetchFailureCached ==
    [][\A t \in Threads :
          (pc[t] = "download_pfp" /\ pc'[t] # "download_pfp" /\ pfp'[t] # "Image") =>
              /\ pfp'[t] = "None"
              /\ TTLHit(download_pfp_cache', KeyOf(t), timer)
              /\ TTLValue(download_pfp_cache', KeyOf(t)) = "None"
      ]_vars

\* C6: no transport error leaves on_stream or ends the process: every
\* handler runs to its end and the process keeps running.
C6_NoTransportErrorEscapes ==
    running /\ \A t \in Threads : pc[t] # "raised"

\* C7 as stated: an event whose avatar is the placeholder always has the
\* indeterminate verdict, and never a download.
Judgment(t) == pc[t] \in {"judged", "get_relationship", "account_block", "done"} /\ action[t] # "discarded"
Downloading(t) == pc[t] \in {"download_pfp", "have_pfp"}
C7_PlaceholderAlwaysIndeterminate ==
    \A t \in Threads :
        IsPlaceholder(account[t]) =>
            /\ ~Downloading(t)
            /\ Judgment(t) => VerdictOf(verdict[t]) = "indeterminate"

\* C7, amended: an event whose avatar is the placeholder never triggers a
\* download (nor a lookup of the avatar cache); when no verdict is cached
\* for the identity, is_account_bad returns indeterminate and caches it;
\* when one is cached, it returns the cached verdict.
C7_PlaceholderNoDownload ==
    /\ [](\A t \in Threads : account[t].avatar_static = "missing.png" => ~Downloading(t))
    /\ [][\A t \in Threads :
            /\ (pc[t] = "is_account_bad" /\ account[t].avatar_static = "missing.png"
                    /\ pc'[t] # "is_account_bad" /\ running') =>
                  /\ pc'[t] = "judged"
                  /\ VerdictOf(verdict'[t]) = "indeterminate"
                  /\ LRUValue(is_account_bad_cache', KeyOf(t)) = "None"
                  /\ download_pfp_cache' = download_pfp_cache
            /\ (pc[t] = "idle" /\ pc'[t] = "judged") =>
                  /\ LRUHit(is_account_bad_cache, cache_key_acct(account'[t]))
                  /\ verdict'[t] = LRUValue(is_account_bad_cache, cache_key_acct(account'[t]))
       ]_vars

\* C7, witness: account 1, judged bad before, is seen with the placeholder
\* avatar while nothing is cached for it, and is judged indeterminate.
C7_Witness ==
    \E t \in Threads :
        /\ pc[t] = "judged" /\ account[t].id = 1 /\ account[t].avatar_static = "missing.png"
        /\ verdict[t] = "None"
        /\ get_relationship_cache # << >>
        /\ ~Has(download_pfp_cache, KeyOf(t))

\* C8: of two consecutive is_account_bad calls for one identity with no
\* eviction in between, the second is a cache hit (no download, no
\* classifier call) and returns the verdict of the first.
C8_SecondCallIsHit ==
    [][\A t \in Threads :
          (pc[t] = "idle" /\ pc'[t] \in {"judged", "is_account_bad"}
                /\ last_judged[cache_key_acct(account'[t])] # "never") =>
              /\ pc'[t] = "judged"
              /\ last_judged[cache_key_acct(account'[t])] # "raised" =>
                    verdict'[t] = last_judged[cache_key_acct(account'[t])]
      ]_vars

\* The age of the entry of k and whether there is one, whatever the cache
\* made of it: an entry stored at time s has expires = s + ttl.
AgeOf(cache, k, ttl) == timer - (Entry_(cache, k).expires - ttl)

\* Time passing by d: an entry that stays younger than the TTL stays, with
\* its value; one that gets older than the TTL is gone for every later lookup.
Outlives(cache, aged, d, ttl) ==
    \A i \in DOMAIN cache :
        LET k == cache[i].key
        IN  /\ AgeOf(cache, k, ttl) + d < ttl =>
                  (Has(aged, k) /\ Entry_(aged, k).value = cache[i].value
                                /\ AgeOf(aged, k, ttl) = AgeOf(cache, k, ttl) + d)
            /\ AgeOf(cache, k, ttl) + d > ttl => ~Has(aged, k)

\* C9: a lookup in the avatar cache or the relationship cache returns an
\* entry younger than the cache's TTL with no collaborator call; when the
\* entry is older than the TTL (or there is none) the lookup misses and
\* one collaborator call is issued, whose result is stored as a new entry
\* of age 0.
C9_TTLFreshness ==
    [][/\ \A d \in Delays :
            Tick(d) =>
                /\ Outlives(download_pfp_cache, download_pfp_cache', d, image_cache_ttl * 60)
                /\ Outlives(get_relationship_cache, get_relationship_cache', d,
                            relationship_cache_ttl * 60)
       /\ \A t \in Threads :
          /\ (pc[t] = "is_account_bad" /\ HasAvatar(account[t]) /\ ~IsPlaceholder(account[t])
                  /\ pc'[t] # "is_account_bad" /\ running') =>
                /\ (Has(download_pfp_cache, KeyOf(t))
                      /\ AgeOf(download_pfp_cache, KeyOf(t), image_cache_ttl * 60) < image_cache_ttl * 60) =>
                        (pc'[t] = "have_pfp" /\ pfp'[t] = Entry_(download_pfp_cache, KeyOf(t)).value)
                /\ (~Has(download_pfp_cache, KeyOf(t))
                      \/ AgeOf(download_pfp_cache, KeyOf(t), image_cache_ttl * 60) > image_cache_ttl * 60) =>
                        pc'[t] = "download_pfp"
          /\ (pc[t] = "download_pfp" /\ pc'[t] = "have_pfp") =>
                /\ Has(download_pfp_cache', KeyOf(t))
                /\ Entry_(download_pfp_cache', KeyOf(t)).value = pfp'[t]
                /\ AgeOf(download_pfp_cache', KeyOf(t), image_cache_ttl * 60) = 0
          /\ (pc[t] = "judged" /\ Truthy(verdict[t]) /\ pc'[t] # "judged" /\ running') =>
                /\ (Has(get_relationship_cache, KeyOf(t))
                      /\ AgeOf(get_relationship_cache, KeyOf(t), relationship_cache_ttl * 60)
                            < relationship_cache_ttl * 60) =>
                        pc'[t] \in {"done", "account_block"}
                /\ (~Has(get_relationship_cache, KeyOf(t))
                      \/ AgeOf(get_relationship_cache, KeyOf(t), relationship_cache_ttl * 60)
                            > relationship_cache_ttl * 60) =>
                        pc'[t] = "get_relationship"
          /\ (pc[t] = "get_relationship" /\ pc'[t] # "get_relationship" /\ running') =>
                /\ Has(get_relationship_cache', KeyOf(t))
                /\ AgeOf(get_relationship_cache', KeyOf(t), relationship_cache_ttl * 60) = 0
      ]_vars

\* C9, witness: a bad account is about to be resolved while its
\* relationship entry is a minute old, younger than the TTL.
C9_Witness ==
    \E t \in Threads :
        /\ pc[t] = "judged" /\ Truthy(verdict[t])
        /\ Has(get_relationship_cache, KeyOf(t))
        /\ AgeOf(get_relationship_cache, KeyOf(t), relationship_cache_ttl * 60) = 90

\* A well-formed entry that makes the verdict bad.
Qualifies(cls) ==
    /\ cls.has_score /\ cls.has_label
    /\ cls.score >= minimum_score
    /\ cls.label \in bad_categories

\* The classifier results with and without a qualifying entry.
QualifyingResults ==
    {r \in ClassifierResults : ~r.raised /\ \E i \in DOMAIN r.entries : Qualifies(r.entries[i])}
NonQualifyingResults ==
    {r \in ClassifierResults : ~r.raised /\ \A i \in DOMAIN r.entries : ~Qualifies(r.entries[i])}

\* C10: for every classifier result the verdict is bad exactly when some
\* well-formed entry has a score not below the minimum and a bad label (a
\* score equal to the minimum qualifies, malformed entries are skipped, and
\* what follows a qualifying entry does not matter), and notBad otherwise:
\* no step of the classifier gives a result with a qualifying entry another
\* verdict than bad, or a result without one another verdict than notBad.
C10_VerdictOfClassification ==
    [][\A t \in Threads :
          (ClassifierInFlight(t) /\ classification'[t] = "returned") =>
              /\ VerdictOf(verdict'[t]) # "bad" =>
                    \A r \in QualifyingResults : ~Classifier(t, r)
              /\ VerdictOf(verdict'[t]) # "notBad" =>
                    \A r \in NonQualifyingResults : ~Classifier(t, r)
      ]_vars

\* C10, witness: the classifier returned and the account was judged bad.
C10_Witness ==
    \E t \in Threads :
        pc[t] = "judged" /\ classification[t] = "returned" /\ verdict[t] = "True"

\* C13: a login failure is fatal: once constructing the client or reading
\* the own account has failed, the only thing the process does is end; no
\* stream is subscribed, no timeline is fetched or replayed and no event
\* reaches on_stream.
C13_LoginFailureIsFatal ==
    /\ [](main_pc = "login_failed" =>
             /\ backlog = 0
             /\ \A t \in Threads : pc[t] = "idle" /\ account[t] = NoAccountData
             /\ is_account_bad_cache = << >>)
    /\ [][main_pc = "login_failed" =>
             /\ ~running'
             /\ ~Listening(main_pc')
             /\ pc' = pc /\ backlog' = backlog
       ]_vars

\* C13, witness: the login failed and the process has ended.
C13_Witness == main_pc = "login_failed" /\ ~running

\* C11: at most one network operation is in flight per identity and
\* cache: no two threads are in the HTTP fetch for the same key, and no two
\* in the relationship query for the same key.
C11_OneNetworkOperationInFlight ==
    \A t1, t2 \in Threads :
        (t1 # t2 /\ KeyOf(t1) = KeyOf(t2)) =>
            /\ ~(pc[t1] = "download_pfp" /\ pc[t2] = "download_pfp")
            /\ ~(pc[t1] = "get_relationship" /\ pc[t2] = "get_relationship")

\* C12: an interrupt delivered at any point after startup (during the
\* hashtag backfill, during a judgment in flight, in the idle loop) ends
\* the process: no error handler swallows it.
C12_InterruptEndsTheProcess ==
    [][\A in_call \in BOOLEAN :
          (Listening(main_pc) /\ Interrupt(in_call)) => ~running'
      ]_vars

\* The keys of a cache, least recently used first.
KeysOf(cache) == [i \in DOMAIN cache |-> cache[i].key]

\* The thread t looks k up in the verdict cache and hits, or stores the
\* verdict of k in it, in this step.
VerdictHit(t, k) == pc[t] = "idle" /\ pc'[t] = "judged" /\ k = cache_key_acct(account'[t])
VerdictStore(t, k) == pc[t] \in {"is_account_bad", "have_pfp"} /\ pc'[t] = "judged" /\ k = KeyOf(t)

\* C14: the verdict cache is bounded and evicts the least recently used
\* entry.  It never holds more than its capacity, nor a key twice.  Its
\* entries are kept in the order of their last access: a hit or a store
\* makes the key the most recent one and leaves the order of the others as
\* it was; a store of a new key into a full cache drops the entry accessed
\* longest ago, and only that one; nothing else changes the cache.
C14_LeastRecentlyUsedEviction ==
    /\ [](/\ Len(is_account_bad_cache) <= lru_maxsize
          /\ \A i, j \in DOMAIN is_account_bad_cache :
                is_account_bad_cache[i].key = is_account_bad_cache[j].key => i = j)
    /\ [][LET old == KeysOf(is_account_bad_cache)
              new == KeysOf(is_account_bad_cache')
              others(ks, k) == SelectSeq(ks, LAMBDA x : x # k)
              present(k) == \E i \in DOMAIN old : old[i] = k
          IN  /\ \A t \in Threads, k \in Keys :
                    (VerdictHit(t, k) \/ VerdictStore(t, k)) =>
                        /\ new # << >> /\ new[Len(new)] = k
                        /\ others(new, k) =
                              IF present(k) \/ Len(old) < lru_maxsize
                              THEN others(old, k)
                              ELSE Tail(old)
                        /\ VerdictHit(t, k) =>
                              (present(k) /\ LRUValue(is_account_bad_cache', k)
                                                = LRUValue(is_account_bad_cache, k))
              /\ (\A t \in Threads, k \in Keys : ~VerdictHit(t, k) /\ ~VerdictStore(t, k)) =>
                    is_account_bad_cache' = is_account_bad_cache
       ]_vars

\* C14, witness: the verdict the main thread was handed has been evicted
\* from the full cache by the accounts the user stream delivered since,
\* while a verdict stored before it is still there.
C14_Witness ==
    /\ Len(is_account_bad_cache) = lru_maxsize
    /\ pc["main"] = "judged"
    /\ ~Has(is_account_bad_cache, KeyOf("main"))
    /\ \E k \in Keys : Has(is_account_bad_cache, k) /\ last_judged[k] # "never"

\* The thread t takes an event that carries an account with an id in this
\* step: the judge call for that account starts.
JudgeCall(t) == pc[t] = "idle" /\ account'[t] # NoAccountData

\* C15: a cached verdict never expires with time.  Time that passes leaves
\* the verdict cache as it is; an entry leaves the cache only when the cache
\* is full or the process ends; and every judge call for an account whose
\* verdict is cached returns that verdict at once, without a download and
\* without a classifier call, whatever the avatar of the event is and
\* whether or not the avatar cache still holds the picture.
C15_CachedVerdictNeverExpires ==
    [][/\ \A d \in Delays :
              is_account_bad_cache' = is_account_bad_cache \/ ~Tick(d)
       /\ \A k \in Keys :
              (Has(is_account_bad_cache, k) /\ ~Has(is_account_bad_cache', k)) =>
                  (~running' \/ Len(is_account_bad_cache) = lru_maxsize)
       /\ \A t \in Threads :
              (JudgeCall(t) /\ Has(is_account_bad_cache, cache_key_acct(account'[t]))) =>
                  LET k == cache_key_acct(account'[t])
                  IN  /\ pc'[t] = "judged"
                      /\ verdict'[t] = LRUValue(is_account_bad_cache, k)
                      /\ pfp'[t] = "unset" /\ classification'[t] = "not_called"
                      /\ download_pfp_cache' = download_pfp_cache
                      /\ Has(is_account_bad_cache', k)
                      /\ LRUValue(is_account_bad_cache', k) = LRUValue(is_account_bad_cache, k)
      ]_vars

\* C15, witness: an event of account 1 that now shows the placeholder
\* avatar was answered bad from the verdict cache, by a thread that neither
\* downloaded nor classified, after the downloaded picture had expired from
\* the avatar cache.
C15_Witness ==
    \E t \in Threads :
        /\ pc[t] = "judged" /\ verdict[t] = "True"
        /\ account[t] = AccountData(1, "missing.png")
        /\ pfp[t] = "unset" /\ classification[t] = "not_called"
        /\ ~Has(download_pfp_cache, KeyOf(t))
        /\ Has(is_account_bad_cache, KeyOf(t))

\* C16: of a list of relationship records the first one alone decides.  For
\* every result r of the resolver, freshly queried or served from its cache,
\* the action taken for a bad account is the decision for the following and
\* followed_by of r's first record, whatever the later records say, and the
\* decision for an unknown relationship (neither following nor followed)
\* when r is an empty list, as when the query failed.
C16_FirstRecordDecides ==
    [][\A t \in Threads : \A r \in QueryResults :
          LET expected ==
                  IF r.is_none \/ r.list = << >>
                  THEN decide("bad", FALSE, FALSE, config)
                  ELSE decide("bad", Head(r.list).following, Head(r.list).followed_by, config)
              k == KeyOf(t)
          IN  /\ \/ pc[t] # "get_relationship"
                 \/ action'[t] = expected /\ (pc'[t] = "account_block") = (expected = "block")
                 \/ ~GetRelationship(t, r)
              /\ \/ ~(pc[t] = "judged" /\ Truthy(verdict[t]))
                 \/ ~TTLHit(get_relationship_cache, k, timer)
                 \/ TTLValue(get_relationship_cache, k) # r
                 \/ action'[t] = expected /\ (pc'[t] = "account_block") = (expected = "block")
                 \/ ~Judged(t)
      ]_vars

\* C16, witness: the resolver returned two records for a bad account, the
\* first one following and not followed, the second one the opposite; with
\* followers exempt and followed accounts not, the account was blocked, as
\* the first record says, where the second record would have spared it.
C16_Witness ==
    \E t \in Threads :
        /\ pc[t] = "account_block" /\ action[t] = "block"
        /\ config.include_following /\ config.exclude_followers /\ config.auto_block
        /\ Has(get_relationship_cache, KeyOf(t))
        /\ TTLValue(get_relationship_cache, KeyOf(t)) =
               ListOf(<< Relationship(TRUE, FALSE), Relationship(FALSE, TRUE) >>)

\* C17: block calls are not deduplicated.  An event issues the block call
\* exactly when its decision becomes block, and issues it once: the call
\* returns to the end of the handler.  The call, succeeded or failed, leaves
\* no trace in the caches or the configuration, so it cannot change the
\* decision of any other event; and every event of a bad account that is
\* not exempt is handed to the block call when auto_block is set, however
\* many events of that account were handled before.
C17_NoDeduplicationOfBlocks ==
    [][\A t \in Threads :
          /\ (pc[t] # "account_block" /\ pc'[t] = "account_block")
                 <=> (action[t] # "block" /\ action'[t] = "block")
          /\ pc[t] = "account_block" =>
                 \/ pc'[t] = "account_block"
                 \/ ~running'
                 \/ /\ pc'[t] = "done" /\ action'[t] = "block"
                    /\ caches' = caches /\ config' = config
                    /\ last_judged' = last_judged
          /\ (/\ pc[t] \in {"judged", "get_relationship"}
              /\ pc'[t] \in {"done", "account_block"}
              /\ Truthy(verdict[t]) /\ config.auto_block
              /\ LET rel == TTLValue(get_relationship_cache', KeyOf(t))
                 IN  /\ ~(~config.include_following /\ FollowingOf(rel))
                     /\ ~(config.exclude_followers /\ FollowedByOf(rel)))
                 => pc'[t] = "account_block"
      ]_vars

\* C17, witness: the main thread has had its block call for a bad account
\* answered, and the listener thread, with a later event of the same
\* account, is in its own block call.
C17_Witness ==
    /\ pc["main"] = "done" /\ action["main"] = "block"
    /\ pc["user"] = "account_block" /\ action["user"] = "block"
    /\ KeyOf("main") = KeyOf("user")
    /\ account["main"].id = account["user"].id

\* The resolver's answer is unknown: the query failed or found no record.
Unknown(rel) == rel.is_none \/ rel.list = << >>

\* C18: an unknown relationship counts as not following and not followed.
\* A bad account whose relationship is unknown, freshly queried or served
\* from the resolver's cache, is never exempt: for every setting of
\* include_following and exclude_followers the action is block, with the
\* block call issued, when auto_block is set, and flag otherwise.
C18_UnknownRelationshipNeverExempts ==
    [][\A t \in Threads :
          LET k == KeyOf(t)
              acts == /\ action'[t] = IF config.auto_block THEN "block" ELSE "flag"
                      /\ pc'[t] = IF config.auto_block THEN "account_block" ELSE "done"
          IN  /\ \A r \in {NoneRelationships, ListOf(<< >>)} :
                    \/ pc[t] # "get_relationship"
                    \/ acts
                    \/ ~GetRelationship(t, r)
              /\ \/ ~(pc[t] = "judged" /\ Truthy(verdict[t]))
                 \/ ~TTLHit(get_relationship_cache, k, timer)
                 \/ ~Unknown(TTLValue(get_relationship_cache, k))
                 \/ acts
                 \/ ~Judged(t)
      ]_vars

\* C18, witness: with followed accounts and followers both exempt, a bad
\* account whose relationship query failed was flagged.
C18_Witness ==
    \E t \in Threads :
        /\ pc[t] = "done" /\ action[t] = "flag" /\ verdict[t] = "True"
        /\ ~config.include_following /\ config.exclude_followers /\ ~config.auto_block
        /\ Has(get_relationship_cache, KeyOf(t))
        /\ TTLValue(get_relationship_cache, KeyOf(t)) = NoneRelationships

\* The handler t is inside the resolver's query, or inside the block call.
Resolving(t) == pc[t] = "get_relationship"
Blocking(t) == pc[t] = "account_block"

\* C19: the relationship resolver is consulted only after a bad verdict.
\* A handler inside the resolver's query or the block call holds a bad
\* verdict.  The resolver's cache is touched only by a handler that holds a
\* bad verdict, or by the passage of time: the step that acts on a verdict
\* that is not bad goes to the end of the handler with action none and
\* leaves the cache alone, and no step before the verdict touches it.  The
\* query is entered only from the judgment, and the block call only from
\* the resolver's answer: its cached one at the judgment, or the query's.
C19_ResolverOnlyAfterBadVerdict ==
    /\ [](\A t \in Threads : (Resolving(t) \/ Blocking(t)) => verdict[t] = "True")
    /\ [][/\ \A t \in Threads :
                /\ (pc[t] = "judged" /\ ~Truthy(verdict[t]) /\ pc'[t] # "judged" /\ running') =>
                       /\ pc'[t] = "done" /\ action'[t] = "none"
                       /\ get_relationship_cache' = get_relationship_cache
                /\ (~Resolving(t) /\ pc'[t] = "get_relationship") =>
                       /\ pc[t] = "judged" /\ Truthy(verdict[t])
                       /\ ~TTLHit(get_relationship_cache, KeyOf(t), timer)
                /\ (~Blocking(t) /\ pc'[t] = "account_block") =>
                       /\ Truthy(verdict[t])
                       /\ \/ Resolving(t)
                          \/ pc[t] = "judged" /\ TTLHit(get_relationship_cache, KeyOf(t), timer)
          /\ (get_relationship_cache' # get_relationship_cache /\ running') =>
                \/ \E d \in Delays : get_relationship_cache' = Age(get_relationship_cache, d)
                \/ \E t \in Threads :
                      /\ pc[t] \in {"judged", "get_relationship"} /\ pc'[t] # pc[t]
                      /\ Truthy(verdict[t])
       ]_vars

\* C19, witness: one handler acted on an indeterminate verdict and ended
\* with action none, another one is in the block call for a bad account,
\* and the resolver's cache holds the answer for the bad account and
\* nothing for the other one: no query was made for it.
C19_Witness ==
    \E t, u \in Threads :
        /\ pc[t] = "done" /\ verdict[t] = "None" /\ action[t] = "none"
        /\ Blocking(u) /\ verdict[u] = "True"
        /\ KeyOf(t) # KeyOf(u)
        /\ Has(get_relationship_cache, KeyOf(u))
        /\ ~Has(get_relationship_cache, KeyOf(t))

\* C20: accounts with distinct ids never share a cache key.  Two handlers
\* at work on accounts with different ids look their accounts up under
\* different keys in the three caches.
C20_DistinctIdsDistinctKeys ==
    \A t1, t2 \in Threads :
        (/\ account[t1].has_id /\ account[t2].has_id
         /\ account[t1].id # account[t2].id)
            => KeyOf(t1) # KeyOf(t2)

====
